---------------------------- MODULE Spec2Model ----------------------------
(***************************************************************************)
(* KitchenIQ (src/kitcheniq/app.py): the inventory tables, the image       *)
(* resolver with its cache, and receipt ingestion, as a state machine.     *)
(*                                                                         *)
(* Text values (names, descriptions, queries) are sequences of one-letter  *)
(* strings, so that lower(), strip() and the query concatenation are       *)
(* computed.  A JSON object is a function whose DOMAIN is the set of keys  *)
(* it holds, so that `key in data` and data.get(key, default) are what     *)
(* they are in the code.                                                   *)
(***************************************************************************)
EXTENDS Integers, Sequences, FiniteSets, TLC

VARIABLES
    items,              \* table items: id -> row
    items_seq,          \* AUTOINCREMENT counter of items
    shopping_list,      \* table shopping_list: id -> row
    shopping_seq,       \* AUTOINCREMENT counter of shopping_list
    image_cache,        \* table image_cache: query_hash -> row
    files,              \* the files under IMAGE_CACHE
    item_history,       \* table item_history, in insertion order
    price_history,      \* table price_history, in insertion order
    google_configured,  \* GOOGLE_API_KEY and GOOGLE_CX are both set
    now,                \* datetime.now(), in days
    conns,              \* the requests served side by side, one connection each
    writer,             \* the connection that holds the write lock of the file, or 0
    last                \* what the last request did (its calls, in order)

vars == <<items, items_seq, shopping_list, shopping_seq, image_cache, files,
          item_history, price_history, google_configured, now, conns, writer,
          last>>

-----------------------------------------------------------------------------
(* Bounds of the model *)

MaxItems == 2       \* rows ever inserted into items
MaxEntries == 2     \* rows ever inserted into shopping_list
MaxHistory == 3     \* rows of item_history
MaxPrices == 2      \* rows of price_history
MaxQuantity == 4    \* largest quantity a row reaches
MaxLines == 2       \* line items of a receipt
MaxEvents == 4      \* rows of a log that the analytics views read
MaxObs == 3         \* rows of the price log that the price comparison reads
MaxResults == 2     \* results listed by an answer of the encyclopedia search
MaxConns == 2       \* requests served side by side

-----------------------------------------------------------------------------
(* Values *)

None == <<"None">>          \* Python None, SQL NULL

Milk == <<"M", "i", "l", "k">>
milk == <<"m", "i", "l", "k">>
Eggs == <<"E", "g", "g", "s">>
Empty == << >>              \* the empty string
TwoPct == <<"2", "%">>

\* str.lower(), on the letters the model uses
LowerChar(c) ==
    CASE c = "M" -> "m"
      [] c = "E" -> "e"
      [] c = "A" -> "a"
      [] c = "S" -> "s"
      [] OTHER -> c

Lower(s) == [i \in 1..Len(s) |-> LowerChar(s[i])]

RECURSIVE LStrip(_)
LStrip(s) == IF s # << >> /\ Head(s) = " " THEN LStrip(Tail(s)) ELSE s

RECURSIVE RStrip(_)
RStrip(s) ==
    IF s # << >> /\ s[Len(s)] = " " THEN RStrip(SubSeq(s, 1, Len(s) - 1)) ELSE s

\* str.strip()
Strip(s) == RStrip(LStrip(s))

\* bool(v) for a text value or None
Truthy(v) == v # None /\ v # << >>

\* data.get(key, default)
Get(data, key, default) == IF key \in DOMAIN data THEN data[key] ELSE default

\* query = f"{item_name} {description}".strip()
Query(item_name, description) == Strip(item_name \o <<" ">> \o description)

\* hashlib.md5(query.lower().encode()).hexdigest(): the digest is modelled as
\* collision-free, so it is named by the text that is hashed
QueryHash(query) == Lower(query)

\* name = ? COLLATE NOCASE
EqNoCase(a, b) == a # None /\ b # None /\ Lower(a) = Lower(b)

-----------------------------------------------------------------------------
(* What a provider request can come to.  "url": a usable image URL.        *)
(* "timeout", "non2xx" (an error status with an error body), "malformed"   *)
(* (a body that is not JSON), "empty" (no result).  "badtype": a malformed *)
(* answer that is valid JSON but whose URL field holds a JSON array or     *)
(* object instead of text.                                                 *)

Outcomes == {"url", "timeout", "non2xx", "malformed", "empty", "badtype"}

\* the download of the image: the content type of a 200 answer, or "fail"
Downloads == {"jpeg", "png", "webp", "fail"}

Url(provider) == <<"url", provider>>
BadUrl == <<"json-array">>      \* a truthy value that is not text

\* what the parsing of a provider's answer leaves in image_url
Yield(provider, outcome) ==
    CASE outcome = "url" -> Url(provider)
      [] outcome = "badtype" -> BadUrl
      [] OTHER -> None

RECURSIVE SplitWords(_, _, _)
\* str.split(): the maximal runs of non-blank letters
SplitWords(s, word, acc) ==
    IF s = << >>
    THEN IF word = << >> THEN acc ELSE Append(acc, word)
    ELSE IF Head(s) = " "
         THEN SplitWords(Tail(s), << >>,
                         IF word = << >> THEN acc ELSE Append(acc, word))
         ELSE SplitWords(Tail(s), Append(word, Head(s)), acc)

Split(s) == SplitWords(s, << >>, << >>)

IsLongWord(w) == Len(w) > 2

\* query_words = [w for w in item_name.lower().split() if len(w) > 2]
QueryWords(item_name) == SelectSeq(Split(Lower(item_name)), IsLongWord)

\* fetch_from_wikipedia: the search request is always sent; every failure
\* is swallowed by the try block and gives None
fetch_from_wikipedia(item_name, outcome) ==
    IF outcome \in {"timeout", "non2xx", "malformed", "empty"} THEN None
    ELSE IF QueryWords(item_name) = << >> THEN None
    ELSE Yield("wikipedia", outcome)

\* w in title_lower
Contains(w, text) ==
    \E i \in 0..(Len(text) - Len(w)) : SubSeq(text, i + 1, i + Len(w)) = w

\* a title taken when any one of the query words occurs in it
TitleMatches_AnyWord(query_words, title) ==
    \E n \in 1..Len(query_words) : Contains(query_words[n], Lower(title))

\* all(w in title_lower for w in query_words)
TitleMatches(query_words, title) ==
    \A n \in 1..Len(query_words) : Contains(query_words[n], Lower(title))

\* the answers to a page summary request: a summary with a thumbnail, one
\* without, an error status, and a request that raises
PageAnswers == {"thumb", "nothumb", "non2xx", "timeout"}

\* page.json().get('thumbnail', {}).get('source')
Thumb(title) == <<"thumb", title>>

RECURSIVE Scan(_, _, _)
\* for result in results: the titles whose page is requested, and the
\* value returned; a request that raises ends the loop with None
Scan(results, query_words, pages) ==
    IF results = << >> THEN [pages |-> pages, url |-> None]
    ELSE IF ~TitleMatches(query_words, Head(results).title)
         THEN Scan(Tail(results), query_words, pages)
         ELSE IF Head(results).page = "timeout"
              THEN [pages |-> Append(pages, Head(results).title), url |-> None]
              ELSE IF Head(results).page = "thumb"
                   THEN [pages |-> Append(pages, Head(results).title),
                         url |-> Thumb(Head(results).title)]
                   ELSE Scan(Tail(results), query_words,
                             Append(pages, Head(results).title))

\* fetch_from_wikipedia(item_name), with the answer to the search request
\* spelled out: its status and the results it lists
SearchWikipedia(item_name, search) ==
    IF search.status # "ok" THEN [pages |-> << >>, url |-> None]
    ELSE IF QueryWords(item_name) = << >> THEN [pages |-> << >>, url |-> None]
    ELSE Scan(search.results, QueryWords(item_name), << >>)

\* one call of fetch_from_wikipedia
FetchFromWikipedia(item_name, search) ==
    /\ \E r \in {SearchWikipedia(item_name, search)} :
          last' = [op |-> "fetch_from_wikipedia", result |-> r.url,
                   args |-> <<item_name, search>>, fetches |-> << >>,
                   writes |-> << >>, pages |-> r.pages]
    /\ UNCHANGED <<items, items_seq, shopping_list, shopping_seq, image_cache,
                   files, item_history, price_history, google_configured, now, conns, writer>>

NoRow == [absent |-> TRUE]      \* fetchone() found no row

CacheRow(cache, qh) == IF qh \in DOMAIN cache THEN cache[qh] ELSE NoRow

\* a hit taken only for a row that also records a source URL
CacheHit_NeedsUrl(cached, fs) ==
    /\ cached # NoRow
    /\ cached.local_path # None
    /\ cached.local_path \in fs
    /\ cached.source_url # None

\* cached and cached['local_path'] and os.path.exists(cached['local_path'])
CacheHit(cached, fs) ==
    /\ cached # NoRow
    /\ cached.local_path # None
    /\ cached.local_path \in fs

Ext(download) ==
    CASE download = "png" -> ".png"
      [] download = "webp" -> ".webp"
      [] OTHER -> ".jpg"

HashPath(qh, ext) == <<"hash", ext, qh>>        \* IMAGE_CACHE/{query_hash}{ext}
CustomPath(item_id, ext) == <<"custom", ext, item_id>>  \* IMAGE_CACHE/custom_{item_id}{ext}

\* INSERT OR REPLACE INTO image_cache ... keyed by the UNIQUE query_hash
Upsert(cache, qh, row) ==
    [h \in DOMAIN cache \cup {qh} |-> IF h = qh THEN row ELSE cache[h]]

\* if google_api_key and google_cx: the keyed image search
AfterGoogle(configured, env) ==
    IF configured
    THEN [image_url |-> Yield("google", env.google),
          calls |-> << [provider |-> "google", url |-> Yield("google", env.google)] >>]
    ELSE [image_url |-> None, calls |-> << >>]

\* Open Food Facts queried whatever the keyed search gave
AfterOff_Always(found, env) ==
    [image_url |-> IF Truthy(found.image_url) THEN found.image_url
                   ELSE Yield("off", env.off),
     calls |-> Append(found.calls,
                      [provider |-> "off", url |-> Yield("off", env.off)])]

\* if not image_url: Open Food Facts
AfterOff(found, env) ==
    IF ~Truthy(found.image_url)
    THEN [image_url |-> Yield("off", env.off),
          calls |-> Append(found.calls,
                           [provider |-> "off", url |-> Yield("off", env.off)])]
    ELSE found

\* if not image_url: Wikipedia
AfterWikipedia(found, item_name, env) ==
    IF ~Truthy(found.image_url)
    THEN [image_url |-> fetch_from_wikipedia(item_name, env.wiki),
          calls |-> Append(found.calls,
                           [provider |-> "wikipedia",
                            url |-> fetch_from_wikipedia(item_name, env.wiki)])]
    ELSE found

\* the providers in the order the code queries them
ProviderCalls(configured, item_name, env) ==
    AfterWikipedia(AfterOff(AfterGoogle(configured, env), env), item_name, env)

\* the download is tried for a truthy image_url; requests.get raises on a
\* value that is not text, and the except block resets local_path
Saved(image_url, download) ==
    Truthy(image_url) /\ image_url # BadUrl /\ download # "fail"

\* lines 220-246 on a cache miss: the download, then the INSERT OR REPLACE,
\* which is not guarded and raises when image_url is a value SQLite cannot
\* bind (raised)
Store(cache, fs, query, qh, cached, found, download) ==
    IF Saved(found.image_url, download)
    THEN [qh |-> qh, cached |-> cached, hit |-> FALSE, calls |-> found.calls,
          local_path |-> HashPath(qh, Ext(download)),
          image_url |-> found.image_url,
          cache |-> Upsert(cache, qh,
                           [query |-> query,
                            local_path |-> HashPath(qh, Ext(download)),
                            source_url |-> found.image_url]),
          files |-> fs \cup {HashPath(qh, Ext(download))},
          raised |-> FALSE]
    ELSE [qh |-> qh, cached |-> cached, hit |-> FALSE, calls |-> found.calls,
          local_path |-> None,
          image_url |-> found.image_url,
          cache |-> IF found.image_url = BadUrl THEN cache
                    ELSE Upsert(cache, qh,
                                [query |-> query, local_path |-> None,
                                 source_url |-> found.image_url]),
          files |-> fs,
          raised |-> found.image_url = BadUrl]

\* lines 165-171: the cache is read first
Lookup(cache, fs, configured, item_name, env, query, qh, cached) ==
    IF CacheHit(cached, fs)
    THEN [qh |-> qh, cached |-> cached, hit |-> TRUE, calls |-> << >>,
          local_path |-> cached.local_path, image_url |-> cached.source_url,
          cache |-> cache, files |-> fs, raised |-> FALSE]
    ELSE Store(cache, fs, query, qh, cached,
               ProviderCalls(configured, item_name, env), env.dl)

Keyed(cache, fs, configured, item_name, env, query, qh) ==
    Lookup(cache, fs, configured, item_name, env, query, qh, CacheRow(cache, qh))

Hashed(cache, fs, configured, item_name, env, query) ==
    Keyed(cache, fs, configured, item_name, env, query, QueryHash(query))

\* fetch_product_image(item_name, description): what it returns
\* (local_path, image_url), what it leaves in image_cache and on disk
\* (cache, files), and the provider requests it made (calls)
fetch_product_image(cache, fs, configured, item_name, description, env) ==
    Hashed(cache, fs, configured, item_name, env, Query(item_name, description))

-----------------------------------------------------------------------------
(* The record store *)

\* log_price: a row only for a store that is set and not 'Unknown' and a
\* price above 0
log_price(ph, item_name, store, price) ==
    IF store # "" /\ store # "Unknown" /\ price > 0
    THEN Append(ph, [item_name |-> item_name, store |-> store, price |-> price,
                     date_recorded |-> now])
    ELSE ph

\* log_history_event: always one row
log_history_event(ih, item_name, event_type) ==
    Append(ih, [item_name |-> item_name, event_type |-> event_type,
                event_date |-> now])

\* INSERT INTO a table whose key is the AUTOINCREMENT id
InsertRow(table, id, row) ==
    [i \in DOMAIN table \cup {id} |-> IF i = id THEN row ELSE table[i]]

\* DELETE FROM table WHERE id = ?
DeleteRow(table, id) == [i \in DOMAIN table \ {id} |-> table[i]]

\* the DELETE left out
DeleteEntriesOf_Skipped(sl, item_id) == sl

\* DELETE FROM shopping_list WHERE item_id = ?
DeleteEntriesOf(sl, item_id) ==
    [e \in {x \in DOMAIN sl : sl[x].item_id # item_id} |-> sl[e]]

EntriesOf(sl, item_id) == {e \in DOMAIN sl : sl[e].item_id = item_id}

\* the INSERT made without looking for an entry first
NoEntryYet_Unchecked(sl, item_id) == TRUE

\* existing = SELECT id FROM shopping_list WHERE item_id = ? ... fetchone();
\* if not existing
NoEntryYet(sl, item_id) == EntriesOf(sl, item_id) = {}

Min(S) == CHOOSE x \in S : \A y \in S : x <= y

\* the comparison made without COLLATE NOCASE
Matches_CaseSensitive(tbl, name) == {i \in DOMAIN tbl : tbl[i].name = name}

\* SELECT id FROM items WHERE name = ? COLLATE NOCASE ... fetchone(): the
\* table is scanned in rowid order (no index on name), so the row of the
\* lowest id is the one returned
Matches(tbl, name) == {i \in DOMAIN tbl : EqNoCase(tbl[i].name, name)}

\* the report of a fetch_product_image call, kept in last.fetches
Report(r) ==
    [qh |-> r.qh, cached |-> r.cached, hit |-> r.hit, calls |-> r.calls,
     local_path |-> r.local_path, image_url |-> r.image_url, raised |-> r.raised]

\* the tables stay within the bounds of the model
Bounded(seq, slseq, ih, ph) ==
    /\ seq <= MaxItems
    /\ slseq <= MaxEntries
    /\ Len(ih) <= MaxHistory
    /\ Len(ph) <= MaxPrices

-----------------------------------------------------------------------------
(* The requests *)

\* the row add_item inserts
NewItem(data, r) ==
    [name |-> Get(data, "name", Empty),
     description |-> Get(data, "description", Empty),
     category |-> Get(data, "category", "Pantry"),
     price |-> Get(data, "price", 0),
     store |-> Get(data, "store", ""),
     status |-> "have",
     quantity |-> 1,
     image_url |-> r.image_url,
     image_local |-> r.local_path]

\* POST /api/items
AddItem(data, env) ==
    \E r \in {fetch_product_image(image_cache, files, google_configured,
                                  Get(data, "name", Empty),
                                  Get(data, "description", Empty), env)} :
        /\ image_cache' = r.cache
        /\ files' = r.files
        /\ IF r.raised
           THEN /\ UNCHANGED <<items, items_seq, item_history, price_history>>
                /\ last' = [op |-> "add_item", result |-> "error",
                            args |-> <<data>>, fetches |-> <<Report(r)>>,
                            writes |-> << >>]
           ELSE /\ items' = InsertRow(items, items_seq + 1, NewItem(data, r))
                /\ items_seq' = items_seq + 1
                /\ item_history' = log_history_event(item_history,
                                       Get(data, "name", Empty), "restocked")
                /\ price_history' = log_price(price_history,
                                       Get(data, "name", Empty),
                                       Get(data, "store", ""),
                                       Get(data, "price", 0))
                /\ Bounded(items_seq', shopping_seq, item_history', price_history')
                /\ last' = [op |-> "add_item", result |-> "ok",
                            args |-> <<data>>, fetches |-> <<Report(r)>>,
                            writes |-> << >>]
        /\ UNCHANGED <<shopping_list, shopping_seq, google_configured, now, conns, writer>>

UpdateKeys == {"name", "description", "category", "price", "status",
               "quantity", "store"}

\* UPDATE items SET <the keys of data> WHERE id = ?
SetFields(tbl, item_id, data) ==
    [i \in DOMAIN tbl |->
        IF i = item_id
        THEN [k \in DOMAIN tbl[i] |->
                IF k \in DOMAIN data \cap UpdateKeys THEN data[k] ELSE tbl[i][k]]
        ELSE tbl[i]]

\* the shopping_list row update_item inserts for an item
EntryOf(item_id, item) ==
    [item_id |-> item_id, name |-> item.name, description |-> item.description,
     category |-> item.category, price |-> item.price,
     image_url |-> item.image_url, image_local |-> item.image_local,
     store |-> item.store]

\* UPDATE shopping_list SET name, description, category, price, store
\* WHERE item_id = ?
RefreshEntries(sl, item_id, item) ==
    [e \in DOMAIN sl |->
        IF sl[e].item_id = item_id
        THEN [sl[e] EXCEPT !.name = item.name, !.description = item.description,
                           !.category = item.category, !.price = item.price,
                           !.store = item.store]
        ELSE sl[e]]

\* PUT /api/items/<item_id>.  Every statement group is committed on its
\* own; dict(fetchone()) raises when the item does not exist, after the
\* commits before it.
UpdateItem(item_id, data) ==
    LET exists == item_id \in DOMAIN items
        tbl == SetFields(items, item_id, data)
        pricing == "price" \in DOMAIN data \/ "store" \in DOMAIN data
        status == Get(data, "status", "")
        reads == pricing \/ status = "needed"
        ph == IF pricing /\ exists
              THEN log_price(price_history, tbl[item_id].name,
                             tbl[item_id].store, tbl[item_id].price)
              ELSE price_history
        toNeeded == status = "needed" /\ exists
        ih == IF toNeeded
              THEN log_history_event(item_history, tbl[item_id].name, "needed")
              ELSE item_history
        inserts == toNeeded /\ NoEntryYet(shopping_list, item_id)
        slid == shopping_seq + 1
        sl == IF inserts
              THEN InsertRow(shopping_list, slid, EntryOf(item_id, tbl[item_id]))
              ELSE IF toNeeded
              THEN RefreshEntries(shopping_list, item_id, tbl[item_id])
              ELSE IF status = "have" /\ ~(pricing /\ ~exists)
              THEN DeleteEntriesOf(shopping_list, item_id)
              ELSE shopping_list
        slseq == IF inserts THEN slid ELSE shopping_seq
    IN  /\ Bounded(items_seq, slseq, ih, ph)
        /\ items' = tbl
        /\ price_history' = ph
        /\ item_history' = ih
        /\ shopping_list' = sl
        /\ shopping_seq' = slseq
        /\ last' = [op |-> "update_item",
                    result |-> IF reads /\ ~exists THEN "error" ELSE "ok",
                    args |-> <<item_id, data>>, fetches |-> << >>,
                    writes |-> << >>]
        /\ UNCHANGED <<items_seq, image_cache, files, google_configured, now, conns, writer>>

\* the item deleted together with the log rows of its name
DeleteItem_PurgesLogs(item_id) ==
    LET Kept(row) == item_id \notin DOMAIN items
                     \/ ~EqNoCase(row.item_name, items[item_id].name)
    IN  /\ shopping_list' = DeleteEntriesOf(shopping_list, item_id)
        /\ items' = DeleteRow(items, item_id)
        /\ item_history' = SelectSeq(item_history, Kept)
        /\ price_history' = SelectSeq(price_history, Kept)
        /\ last' = [op |-> "delete_item", result |-> "ok", args |-> <<item_id>>,
                    fetches |-> << >>, writes |-> << >>]
        /\ UNCHANGED <<items_seq, shopping_seq, image_cache, files,
                       google_configured, now, conns, writer>>

\* DELETE /api/items/<item_id>
DeleteItem(item_id) ==
    /\ shopping_list' = DeleteEntriesOf(shopping_list, item_id)
    /\ items' = DeleteRow(items, item_id)
    /\ last' = [op |-> "delete_item", result |-> "ok", args |-> <<item_id>>,
                fetches |-> << >>, writes |-> << >>]
    /\ UNCHANGED <<items_seq, shopping_seq, image_cache, files, item_history,
                   price_history, google_configured, now, conns, writer>>

\* DELETE /api/shopping-list/<id>
RemoveFromShoppingList(entry_id) ==
    LET row == IF entry_id \in DOMAIN shopping_list
               THEN shopping_list[entry_id] ELSE NoRow
        linked == row # NoRow /\ row.item_id > 0   \* row and row['item_id']
        purchased == linked /\ row.item_id \in DOMAIN items
        ih == IF purchased
              THEN log_history_event(item_history, items[row.item_id].name,
                                     "restocked")
              ELSE item_history
    IN  /\ Bounded(items_seq, shopping_seq, ih, price_history)
        /\ items' = IF purchased
                    THEN [items EXCEPT ![row.item_id].status = "have"]
                    ELSE items
        /\ item_history' = ih
        /\ shopping_list' = DeleteRow(shopping_list, entry_id)
        /\ last' = [op |-> "remove_from_shopping_list", result |-> "ok",
                    args |-> <<entry_id>>, fetches |-> << >>, writes |-> << >>]
        /\ UNCHANGED <<items_seq, shopping_seq, image_cache, files,
                       price_history, google_configured, now, conns, writer>>

\* UPDATE items SET image_url = ?, image_local = ? WHERE id = ?
SetItemImage(tbl, item_id, image_url, local_path) ==
    [i \in DOMAIN tbl |->
        IF i = item_id
        THEN [tbl[i] EXCEPT !.image_url = image_url, !.image_local = local_path]
        ELSE tbl[i]]

\* UPDATE shopping_list SET image_url = ?, image_local = ? WHERE item_id = ?
SetEntryImage(sl, item_id, image_url, local_path) ==
    [e \in DOMAIN sl |->
        IF sl[e].item_id = item_id
        THEN [sl[e] EXCEPT !.image_url = image_url, !.image_local = local_path]
        ELSE sl[e]]

\* DELETE FROM image_cache WHERE query_hash = ?
Evict(cache, qh) == [h \in DOMAIN cache \ {qh} |-> cache[h]]

\* POST /api/items/<item_id>/refresh-image
RefreshImage(item_id, env) ==
    IF item_id \notin DOMAIN items
    THEN /\ last' = [op |-> "refresh_image", result |-> "not_found",
                     args |-> <<item_id>>, fetches |-> << >>, writes |-> << >>]
         /\ UNCHANGED <<items, items_seq, shopping_list, shopping_seq,
                        image_cache, files, item_history, price_history,
                        google_configured, now, conns, writer>>
    ELSE
    \E r \in {fetch_product_image(
                 Evict(image_cache,
                       QueryHash(Query(items[item_id].name,
                                       items[item_id].description))),
                 files, google_configured, items[item_id].name,
                 items[item_id].description, env)} :
        /\ image_cache' = r.cache
        /\ files' = r.files
        /\ items' = IF r.raised THEN items
                    ELSE SetItemImage(items, item_id, r.image_url, r.local_path)
        /\ shopping_list' =
              IF r.raised THEN shopping_list
              ELSE SetEntryImage(shopping_list, item_id, r.image_url, r.local_path)
        /\ last' = [op |-> "refresh_image",
                    result |-> IF r.raised THEN "error" ELSE "ok",
                    args |-> <<item_id>>, fetches |-> <<Report(r)>>,
                    writes |-> << >>]
        /\ UNCHANGED <<items_seq, shopping_seq, item_history, price_history,
                       google_configured, now, conns, writer>>

\* the extension upload_item_image keeps from the file name
UploadExt(ext) == IF ext \in {".jpg", ".jpeg", ".png", ".webp"} THEN ext ELSE ".jpg"

\* POST /api/items/<item_id>/upload-image, with a named file
UploadItemImage(item_id, ext) ==
    IF item_id \notin DOMAIN items
    THEN /\ last' = [op |-> "upload_item_image", result |-> "not_found",
                     args |-> <<item_id, ext>>, fetches |-> << >>,
                     writes |-> << >>]
         /\ UNCHANGED <<items, items_seq, shopping_list, shopping_seq,
                        image_cache, files, item_history, price_history,
                        google_configured, now, conns, writer>>
    ELSE
    LET item == items[item_id]
        local_path == CustomPath(item_id, UploadExt(ext))
        query == Query(item.name, item.description)
        qh == QueryHash(query)
    IN  /\ files' = files \cup {local_path}
        /\ image_cache' = Upsert(image_cache, qh,
                                 [query |-> query, local_path |-> local_path,
                                  source_url |-> None])
        /\ items' = SetItemImage(items, item_id, None, local_path)
        /\ shopping_list' = SetEntryImage(shopping_list, item_id, None, local_path)
        /\ last' = [op |-> "upload_item_image", result |-> "ok",
                    args |-> <<item_id, ext>>, fetches |-> << >>,
                    writes |-> << >>]
        /\ UNCHANGED <<items_seq, shopping_seq, item_history, price_history,
                       google_configured, now, conns, writer>>

-----------------------------------------------------------------------------
(* Receipt ingestion *)

\* one entry of the dict comprehension: the call is recorded, and unless it
\* raised its pair replaces the pair of an earlier line item of that name.
\* acc: [cache, files, images, fetches, writes, raised]
Resolved(acc, name, r) ==
    [cache |-> r.cache,
     files |-> r.files,
     images |-> IF r.raised THEN acc.images
                ELSE [n \in DOMAIN acc.images \cup {name} |->
                         IF n = name
                         THEN [local_path |-> r.local_path, image_url |-> r.image_url]
                         ELSE acc.images[n]],
     fetches |-> Append(acc.fetches, Report(r)),
     writes |-> IF r.hit \/ r.raised THEN acc.writes
                ELSE Append(acc.writes, "image_cache"),
     raised |-> r.raised]

\* images = {item.get('name', ''): fetch_product_image(...) for item in items}:
\* one call per line item, in order, each through its own connection
RECURSIVE ResolveAll(_, _, _, _, _)
ResolveAll(lines, envs, configured, idx, acc) ==
    IF idx > Len(lines) \/ acc.raised THEN acc
    ELSE ResolveAll(lines, envs, configured, idx + 1,
            Resolved(acc, Get(lines[idx], "name", Empty),
                fetch_product_image(acc.cache, acc.files, configured,
                    Get(lines[idx], "name", Empty),
                    Get(lines[idx], "description", Empty), envs[idx])))

\* COALESCE(NULLIF(column, ""), ?)
Coalesce(old, new) == IF Truthy(old) THEN old ELSE new

\* item.get('store', store) or store
StoreOr(item, store) ==
    IF Get(item, "store", store) # "" THEN Get(item, "store", store) ELSE store

\* the UPDATE without quantity = quantity + 1
Restocked_NoIncrement(row, pair) ==
    [row EXCEPT !.status = "have",
                !.image_url = Coalesce(@, pair.image_url),
                !.image_local = Coalesce(@, pair.local_path)]

\* UPDATE items SET status = "have", quantity = quantity + 1,
\* image_url = COALESCE(...), image_local = COALESCE(...) WHERE id = ?
Restocked(row, pair) ==
    [row EXCEPT !.status = "have",
                !.quantity = @ + 1,
                !.image_url = Coalesce(@, pair.image_url),
                !.image_local = Coalesce(@, pair.local_path)]

\* the match path of the loop body: lines 568-575
Restock(st, id, item, pair, store) ==
    [st EXCEPT
        !.items = [st.items EXCEPT ![id] = Restocked(@, pair)],
        !.sl = DeleteEntriesOf(st.sl, id),
        !.ih = log_history_event(st.ih, item["name"], "restocked"),
        !.ph = log_price(st.ph, item["name"], Get(item, "store", store),
                         Get(item, "price", 0)),
        !.added = Append(st.added,
                         [id |-> id, name |-> item["name"], action |-> "updated"]),
        !.writes = st.writes \o <<"items", "shopping_list", "item_history">>
                   \o (IF log_price(st.ph, item["name"], Get(item, "store", store),
                                    Get(item, "price", 0)) # st.ph
                       THEN <<"price_history">> ELSE << >>)]

\* the no-match path of the loop body: lines 577-584
Insert(st, item, pair, store) ==
    [st EXCEPT
        !.items = InsertRow(st.items, st.seq + 1,
                      [name |-> item["name"],
                       description |-> Get(item, "description", Empty),
                       category |-> Get(item, "category", "Pantry"),
                       price |-> Get(item, "price", 0),
                       store |-> StoreOr(item, store),
                       status |-> "have",
                       quantity |-> 1,
                       image_url |-> pair.image_url,
                       image_local |-> pair.local_path]),
        !.seq = st.seq + 1,
        !.ih = log_history_event(st.ih, item["name"], "restocked"),
        !.ph = log_price(st.ph, item["name"], StoreOr(item, store),
                         Get(item, "price", 0)),
        !.added = Append(st.added,
                         [id |-> st.seq + 1, name |-> item["name"], action |-> "added"]),
        !.writes = st.writes \o <<"items", "item_history">>
                   \o (IF log_price(st.ph, item["name"], StoreOr(item, store),
                                    Get(item, "price", 0)) # st.ph
                       THEN <<"price_history">> ELSE << >>)]

\* one pass of the loop body: existing = SELECT ... fetchone()
LineItem(st, item, pair, store, existing) ==
    IF existing # {}
    THEN Restock(st, Min(existing), item, pair, store)
    ELSE Insert(st, item, pair, store)

\* the loop over the line items, on one connection; item['name'] raises
\* KeyError for a line item without a name.
\* st: [items, seq, sl, ih, ph, added, writes, failed]
RECURSIVE Reconcile(_, _, _, _, _)
Reconcile(lines, store, images, idx, st) ==
    IF idx > Len(lines) \/ st.failed THEN st
    ELSE IF "name" \notin DOMAIN lines[idx]
    THEN [st EXCEPT !.failed = TRUE]
    ELSE Reconcile(lines, store, images, idx + 1,
            LineItem(st, lines[idx], images[lines[idx]["name"]], store,
                     Matches(st.items, lines[idx]["name"])))

\* the images resolved after the loop has written
Ingest_WritesFirst(lines, store, res) ==
    IF res.raised
    THEN [failed |-> TRUE, writes |-> res.writes]
    ELSE [Reconcile(lines, store, res.images, 1,
              [items |-> items, seq |-> items_seq, sl |-> shopping_list,
               ih |-> item_history, ph |-> price_history,
               added |-> << >>, writes |-> << >>, failed |-> FALSE])
          EXCEPT !.writes = @ \o res.writes]

\* every line item committed on its own: the ones before a line item that
\* raises stay
Ingest_CommitsPerLine(lines, store, res) ==
    IF res.raised
    THEN [failed |-> TRUE, writes |-> res.writes]
    ELSE [Reconcile(lines, store, res.images, 1,
              [items |-> items, seq |-> items_seq, sl |-> shopping_list,
               ih |-> item_history, ph |-> price_history,
               added |-> << >>, writes |-> res.writes, failed |-> FALSE])
          EXCEPT !.failed = FALSE]

\* both phases of upload_receipt: the images, then the loop
Ingest(lines, store, res) ==
    IF res.raised
    THEN [failed |-> TRUE, writes |-> res.writes]
    ELSE Reconcile(lines, store, res.images, 1,
             [items |-> items, seq |-> items_seq, sl |-> shopping_list,
              ih |-> item_history, ph |-> price_history,
              added |-> << >>, writes |-> res.writes, failed |-> FALSE])

\* What analyze_receipt_image comes to.  [kind |-> "error"]: the request to
\* the oracle raises; [kind |-> "malformed"]: json.loads rejects the text;
\* otherwise the value json.loads returns: [kind |-> "array", items |-> lines],
\* [kind |-> "object", elems |-> keys], [kind |-> "string", elems |-> letters]
\* or [kind |-> "number"].
OracleKinds == {"error", "malformed", "array", "object", "string", "number"}

\* the try block raises before any line item is resolved: in
\* analyze_receipt_image, or in the comprehension, where a number is not
\* iterable and the elements of an object (its keys) and of a string (its
\* letters) are strings, which have no get()
ExtractionRaises(oracle) ==
    \/ oracle.kind \in {"error", "malformed", "number"}
    \/ oracle.kind \in {"object", "string"} /\ oracle.elems # << >>

\* the line items the comprehension and the loop go through: an object or
\* string with no element is iterated like an empty array
Lines(oracle) == IF oracle.kind = "array" THEN oracle.items ELSE << >>

\* POST /api/upload-receipt, with a named file.  envs: what the providers
\* answer for each line item.
UploadReceipt(oracle, store, envs) ==
    IF ExtractionRaises(oracle)
    THEN /\ last' = [op |-> "upload_receipt", result |-> "error",
                     args |-> <<oracle, store>>, fetches |-> << >>,
                     writes |-> << >>]
         /\ UNCHANGED <<items, items_seq, shopping_list, shopping_seq,
                        image_cache, files, item_history, price_history,
                        google_configured, now, conns, writer>>
    ELSE
    \E res \in {ResolveAll(Lines(oracle), envs, google_configured, 1,
                   [cache |-> image_cache, files |-> files, images |-> << >>,
                    fetches |-> << >>, writes |-> << >>, raised |-> FALSE])} :
    \E st \in {Ingest(Lines(oracle), store, res)} :
        /\ image_cache' = res.cache
        /\ files' = res.files
        /\ IF st.failed
           THEN /\ UNCHANGED <<items, items_seq, shopping_list, item_history,
                               price_history>>
                /\ last' = [op |-> "upload_receipt", result |-> "error",
                            args |-> <<oracle, store>>, fetches |-> res.fetches,
                            writes |-> Append(st.writes, "rollback")]
           ELSE /\ Bounded(st.seq, shopping_seq, st.ih, st.ph)
                /\ \A i \in DOMAIN st.items : st.items[i].quantity <= MaxQuantity
                /\ items' = st.items
                /\ items_seq' = st.seq
                /\ shopping_list' = st.sl
                /\ item_history' = st.ih
                /\ price_history' = st.ph
                /\ last' = [op |-> "upload_receipt", result |-> "ok",
                            args |-> <<oracle, store>>, fetches |-> res.fetches,
                            writes |-> Append(st.writes, "commit"),
                            added |-> st.added]
        /\ UNCHANGED <<shopping_seq, google_configured, now, conns, writer>>

-----------------------------------------------------------------------------
(* The analytics views.  Timestamps are whole days.                        *)

\* the code point of a letter, on the letters the model uses: the order of
\* ORDER BY item_name under the BINARY collation
Ord(c) ==
    CASE c = " " -> 32 [] c = "%" -> 37 [] c = "2" -> 50
      [] c = "E" -> 69 [] c = "M" -> 77
      [] c = "g" -> 103 [] c = "i" -> 105 [] c = "k" -> 107
      [] c = "l" -> 108 [] c = "m" -> 109 [] c = "s" -> 115

RECURSIVE NameLess(_, _)
\* a < b for two texts, compared letter by letter
NameLess(a, b) ==
    IF b = << >> THEN FALSE
    ELSE IF a = << >> THEN TRUE
    ELSE IF Head(a) # Head(b) THEN Ord(Head(a)) < Ord(Head(b))
    ELSE NameLess(Tail(a), Tail(b))

IsRestock(row) == row.event_type = "restocked"

\* any event counted as a restock
RestockRows_AnyEvent(ih, name) ==
    {k \in 1..Len(ih) : ih[k].item_name = name}

\* the rows of restock_map[item_name]: WHERE event_type = "restocked", and
\* the name as it is written
RestockRows(ih, name) ==
    {k \in 1..Len(ih) : IsRestock(ih[k]) /\ ih[k].item_name = name}

\* ... ORDER BY item_name: the keys of restock_map, in the order in which
\* the loop goes through them
RestockNames(ih) ==
    LET names == {ih[k].item_name : k \in {x \in 1..Len(ih) : IsRestock(ih[x])}}
        Rank(n) == Cardinality({m \in names : NameLess(m, n)}) + 1
    IN  [r \in 1..Cardinality(names) |-> CHOOSE n \in names : Rank(n) = r]

\* parsed = sorted(datetime.fromisoformat(d) for d in dates)
Parsed(ih, rows) ==
    LET Rank(k) == Cardinality({j \in rows :
                       \/ ih[j].event_date < ih[k].event_date
                       \/ ih[j].event_date = ih[k].event_date /\ j < k}) + 1
    IN  [r \in 1..Cardinality(rows) |->
            ih[CHOOSE k \in rows : Rank(k) = r].event_date]

\* every gap measured from the first event
Cycles_FromFirst(parsed) ==
    [i \in 1..(Len(parsed) - 1) |-> parsed[i + 1] - parsed[1]]

\* cycles = [(parsed[i+1] - parsed[i]).days for i in range(len(parsed)-1)]
Cycles(parsed) == [i \in 1..(Len(parsed) - 1) |-> parsed[i + 1] - parsed[i]]

RECURSIVE Sum(_)
Sum(seq) == IF seq = << >> THEN 0 ELSE Head(seq) + Sum(Tail(seq))

\* round(num / den) for den > 0: Python rounds a half to the even integer
Round(num, den) ==
    LET f == num \div den
        r == num % den
    IN  IF 2 * r < den THEN f
        ELSE IF 2 * r > den THEN f + 1
        ELSE IF f % 2 = 0 THEN f ELSE f + 1

\* round(min(len(dates) / 5.0, 1.0), 2), in hundredths
Confidence(n) == IF n >= 5 THEN 100 ELSE Round(n * 100, 5)

\* the entry appended for one item name; avg_cycle = total / count
Suggestion(name, parsed, cycles, today) ==
    [item_name |-> name,
     avg_cycle_days |-> Round(Sum(cycles), Len(cycles)),
     days_since_restock |-> today - parsed[Len(parsed)],
     days_until_needed |->
         Round(Sum(cycles) - (today - parsed[Len(parsed)]) * Len(cycles),
               Len(cycles)),
     confidence |-> Confidence(Len(parsed)),
     restock_count |-> Len(parsed)]

\* if len(dates) < 2: continue ... if avg_cycle < 1: continue
Suggested(parsed) ==
    Len(parsed) >= 2 /\ Sum(Cycles(parsed)) >= Len(Cycles(parsed))

\* suggestions.sort(key=lambda x: x['days_until_needed']): the sort is
\* stable, so entries of one key stay in the order of the loop
SortByDaysUntil(seq) ==
    LET Rank(k) == Cardinality({j \in 1..Len(seq) :
                       \/ seq[j].days_until_needed < seq[k].days_until_needed
                       \/ /\ seq[j].days_until_needed = seq[k].days_until_needed
                          /\ j < k}) + 1
    IN  [r \in 1..Len(seq) |-> seq[CHOOSE k \in 1..Len(seq) : Rank(k) = r]]

\* the loop over restock_map.items()
Suggestions(ih, today) ==
    LET names == RestockNames(ih)
        Dates(n) == Parsed(ih, RestockRows(ih, names[n]))
        kept == SelectSeq([n \in 1..Len(names) |-> n],
                          LAMBDA n : Suggested(Dates(n)))
    IN  SortByDaysUntil(
            [k \in 1..Len(kept) |->
                Suggestion(names[kept[k]], Dates(kept[k]),
                           Cycles(Dates(kept[k])), today)])

\* SELECT * FROM items WHERE name=? COLLATE NOCASE ORDER BY date_modified
\* DESC LIMIT 1: the ids the query may return, 0 for None.  The model does
\* not keep date_modified: of several items of the name, any one may be
\* the one modified last.
JoinedItems(tbl, name) ==
    IF Matches(tbl, name) = {} THEN {0} ELSE Matches(tbl, name)

\* 'item_id': item['id'] if item else None
WithItem(entry, id) ==
    [item_name |-> entry.item_name, item_id |-> id,
     avg_cycle_days |-> entry.avg_cycle_days,
     days_since_restock |-> entry.days_since_restock,
     days_until_needed |-> entry.days_until_needed,
     confidence |-> entry.confidence, restock_count |-> entry.restock_count]

\* GET /api/suggestions.  Of the fields joined from items (category, image,
\* id, status) the id is kept.  Names that differ in case only are joined
\* to the same item.
GetSuggestions ==
    /\ \E entries \in {Suggestions(item_history, now)} :
       \E pick \in [{Lower(entries[k].item_name) : k \in 1..Len(entries)}
                       -> DOMAIN items \cup {0}] :
          /\ \A k \in 1..Len(entries) :
                pick[Lower(entries[k].item_name)]
                    \in JoinedItems(items, entries[k].item_name)
          /\ last' = [op |-> "get_suggestions", result |-> "ok", args |-> << >>,
                      fetches |-> << >>, writes |-> << >>,
                      suggestions |->
                          [k \in 1..Len(entries) |->
                              WithItem(entries[k],
                                       pick[Lower(entries[k].item_name)])]]
    /\ UNCHANGED <<items, items_seq, shopping_list, shopping_seq, image_cache,
                   files, item_history, price_history, google_configured, now,
                   conns, writer>>

\* WHERE item_name = ? COLLATE NOCASE
PricesOf(ph, name) == {k \in 1..Len(ph) : EqNoCase(ph[k].item_name, name)}

\* the oldest date of the store taken for the latest
MaxDate_Oldest(ph, rows, store) ==
    CHOOSE d \in {ph[k].date_recorded : k \in {x \in rows : ph[x].store = store}} :
        \A k \in rows : ph[k].store = store => d <= ph[k].date_recorded

\* SELECT store, MAX(date_recorded) as max_date ... GROUP BY store
MaxDate(ph, rows, store) ==
    CHOOSE d \in {ph[k].date_recorded : k \in {x \in rows : ph[x].store = store}} :
        \A k \in rows : ph[k].store = store => d >= ph[k].date_recorded

\* INNER JOIN latest ON ph.store = latest.store
\*                    AND ph.date_recorded = latest.max_date
LatestRows(ph, rows) ==
    {k \in rows : ph[k].date_recorded = MaxDate(ph, rows, ph[k].store)}

\* ORDER BY ph.price ASC: the rows in an order of ascending price; SQLite
\* does not say in which order it returns rows of one price
ByPrice(ph, rows) ==
    {f \in [1..Cardinality(rows) -> rows] :
        /\ \A a, b \in 1..Cardinality(rows) : a # b => f[a] # f[b]
        /\ \A a, b \in 1..Cardinality(rows) :
              a < b => ph[f[a]].price <= ph[f[b]].price}

\* result = [dict(r) for r in rows]; if result: result[0]['cheapest'] = True
PriceEntries(ph, order) ==
    [n \in 1..Len(order) |->
        IF n = 1
        THEN [store |-> ph[order[n]].store, price |-> ph[order[n]].price,
              date_recorded |-> ph[order[n]].date_recorded, cheapest |-> TRUE]
        ELSE [store |-> ph[order[n]].store, price |-> ph[order[n]].price,
              date_recorded |-> ph[order[n]].date_recorded]]

\* GET /api/items/<item_id>/price-history
GetPriceHistory(item_id) ==
    /\ IF item_id \notin DOMAIN items
       THEN last' = [op |-> "get_price_history", result |-> "ok",
                     args |-> <<item_id>>, fetches |-> << >>, writes |-> << >>,
                     prices |-> << >>]
       ELSE \E order \in ByPrice(price_history,
                         LatestRows(price_history,
                                    PricesOf(price_history, items[item_id].name))) :
                last' = [op |-> "get_price_history", result |-> "ok",
                         args |-> <<item_id>>, fetches |-> << >>,
                         writes |-> << >>,
                         prices |-> PriceEntries(price_history, order)]
    /\ UNCHANGED <<items, items_seq, shopping_list, shopping_seq, image_cache,
                   files, item_history, price_history, google_configured, now, conns, writer>>

-----------------------------------------------------------------------------
(* update_item, statement by statement.  Every request opens a connection  *)
(* of its own (get_db).  The sqlite3 module begins a transaction before an *)
(* INSERT, UPDATE or DELETE and not before a SELECT; the statement takes   *)
(* the write lock of the file, which the connection holds until it         *)
(* commits, and a connection that finds the lock taken waits for it, five  *)
(* seconds at most.  What a connection has written is seen by the others   *)
(* when it commits.                                                        *)

Conns == 1..MaxConns

IdleConn ==
    [pc |-> "idle", item_id |-> 0, data |-> << >>, item |-> NoRow,
     existing |-> FALSE]

\* the statements that write
Writes == {"update", "log_price", "log_needed", "delete"}

\* a write that does not wait for the lock
WriteLockFree_Always(c) == TRUE

\* no other connection is inside a transaction that has written
WriteLockFree(c) == writer = 0

\* the request arrives: data = request.json; conn = get_db().  The
\* connections are told apart by a number that nothing depends on: the
\* request is given the lowest one that is idle.
BeginUpdate(c, item_id, data) ==
    /\ conns[c].pc = "idle"
    /\ \A b \in 1..(c - 1) : conns[b].pc # "idle"
    /\ conns' = [conns EXCEPT ![c] = [IdleConn EXCEPT !.pc = "update",
                                                      !.item_id = item_id,
                                                      !.data = data]]
    /\ UNCHANGED <<items, items_seq, shopping_list, shopping_seq, image_cache,
                   files, item_history, price_history, google_configured, now,
                   writer, last>>

\* the connection goes on to its next statement; after the last one, and
\* after a statement that raised, the request is answered and the
\* connection closed: conn.close(); return jsonify({'success': True})
Continue(c, next) ==
    IF next.pc \in {"respond", "failed"}
    THEN /\ conns' = [conns EXCEPT ![c] = IdleConn]
         /\ last' = [op |-> "update_item",
                     result |-> IF next.pc = "failed" THEN "error" ELSE "ok",
                     args |-> <<next.item_id, next.data>>,
                     fetches |-> << >>, writes |-> << >>]
    ELSE /\ conns' = [conns EXCEPT ![c] = next]
         /\ UNCHANGED last

\* UPDATE items SET ... WHERE id = ?; conn.commit()
UpdateRow(c) ==
    /\ conns[c].pc = "update"
    /\ WriteLockFree(c)
    /\ items' = SetFields(items, conns[c].item_id, conns[c].data)
    /\ Continue(c, [conns[c] EXCEPT !.pc =
          IF "price" \in DOMAIN conns[c].data \/ "store" \in DOMAIN conns[c].data
          THEN "read_priced"
          ELSE IF Get(conns[c].data, "status", "") = "needed" THEN "read_needed"
          ELSE IF Get(conns[c].data, "status", "") = "have" THEN "delete"
          ELSE "respond"])
    /\ UNCHANGED <<items_seq, shopping_list, shopping_seq, image_cache, files,
                   item_history, price_history, google_configured, now, writer>>

\* item = dict(conn.execute('SELECT * FROM items WHERE id = ?').fetchone()),
\* which raises when there is no row
ReadItem(c) ==
    /\ conns[c].pc \in {"read_priced", "read_needed"}
    /\ Continue(c, [conns[c] EXCEPT
          !.item = IF conns[c].item_id \in DOMAIN items
                   THEN items[conns[c].item_id] ELSE NoRow,
          !.pc = IF conns[c].item_id \notin DOMAIN items THEN "failed"
                 ELSE IF conns[c].pc = "read_priced" THEN "log_price"
                 ELSE "log_needed"])
    /\ UNCHANGED <<items, items_seq, shopping_list, shopping_seq, image_cache,
                   files, item_history, price_history, google_configured, now,
                   writer>>

\* log_price(conn, item['name'], item.get('store',''), item.get('price', 0));
\* conn.commit()
LogPrice(c) ==
    /\ conns[c].pc = "log_price"
    /\ WriteLockFree(c)
    /\ price_history' = log_price(price_history, conns[c].item.name,
                                  conns[c].item.store, conns[c].item.price)
    /\ Bounded(items_seq, shopping_seq, item_history, price_history')
    /\ Continue(c, [conns[c] EXCEPT !.pc =
          IF Get(conns[c].data, "status", "") = "needed" THEN "read_needed"
          ELSE IF Get(conns[c].data, "status", "") = "have" THEN "delete"
          ELSE "respond"])
    /\ UNCHANGED <<items, items_seq, shopping_list, shopping_seq, image_cache,
                   files, item_history, google_configured, now, writer>>

\* log_history_event(conn, item['name'], 'needed'): the INSERT begins the
\* transaction that the INSERT or UPDATE of shopping_list ends
LogNeeded(c) ==
    /\ conns[c].pc = "log_needed"
    /\ WriteLockFree(c)
    /\ writer' = c
    /\ Continue(c, [conns[c] EXCEPT !.pc = "check"])
    /\ UNCHANGED <<items, items_seq, shopping_list, shopping_seq, image_cache,
                   files, item_history, price_history, google_configured, now>>

\* existing = conn.execute('SELECT id FROM shopping_list WHERE item_id = ?')
CheckExisting(c) ==
    /\ conns[c].pc = "check"
    /\ Continue(c, [conns[c] EXCEPT
          !.existing = ~NoEntryYet(shopping_list, conns[c].item_id),
          !.pc = "write"])
    /\ UNCHANGED <<items, items_seq, shopping_list, shopping_seq, image_cache,
                   files, item_history, price_history, google_configured, now,
                   writer>>

\* if not existing: INSERT INTO shopping_list ... else: UPDATE shopping_list
\* ...; conn.commit(), which also commits the event logged before
WriteEntry(c) ==
    /\ conns[c].pc = "write"
    /\ item_history' = log_history_event(item_history, conns[c].item.name,
                                         "needed")
    /\ IF conns[c].existing
       THEN /\ shopping_list' = RefreshEntries(shopping_list, conns[c].item_id,
                                               conns[c].item)
            /\ UNCHANGED shopping_seq
       ELSE /\ shopping_list' = InsertRow(shopping_list, shopping_seq + 1,
                                          EntryOf(conns[c].item_id, conns[c].item))
            /\ shopping_seq' = shopping_seq + 1
    /\ Bounded(items_seq, shopping_seq', item_history', price_history)
    /\ writer' = 0
    /\ Continue(c, [conns[c] EXCEPT !.pc = "respond"])
    /\ UNCHANGED <<items, items_seq, image_cache, files, price_history,
                   google_configured, now>>

\* DELETE FROM shopping_list WHERE item_id = ?; conn.commit()
DeleteEntries(c) ==
    /\ conns[c].pc = "delete"
    /\ WriteLockFree(c)
    /\ shopping_list' = DeleteEntriesOf(shopping_list, conns[c].item_id)
    /\ Continue(c, [conns[c] EXCEPT !.pc = "respond"])
    /\ UNCHANGED <<items, items_seq, shopping_seq, image_cache, files,
                   item_history, price_history, google_configured, now, writer>>

\* the wait for the lock runs out: the statement raises "database is locked"
Busy(c) ==
    /\ conns[c].pc \in Writes
    /\ writer \notin {0, c}
    /\ Continue(c, [conns[c] EXCEPT !.pc = "failed"])
    /\ UNCHANGED <<items, items_seq, shopping_list, shopping_seq, image_cache,
                   files, item_history, price_history, google_configured, now,
                   writer>>

-----------------------------------------------------------------------------
(* The state after init_db(): empty tables, an empty image directory *)

Init ==
    /\ items = << >>
    /\ items_seq = 0
    /\ shopping_list = << >>
    /\ shopping_seq = 0
    /\ image_cache = << >>
    /\ files = {}
    /\ item_history = << >>
    /\ price_history = << >>
    /\ google_configured \in BOOLEAN
    /\ now = 0
    /\ conns = [c \in Conns |-> IdleConn]
    /\ writer = 0
    /\ last = [op |-> "init", result |-> "ok", args |-> << >>,
               fetches |-> << >>, writes |-> << >>]

Env(g, o, w, d) == [google |-> g, off |-> o, wiki |-> w, dl |-> d]

ItemIds == 1..MaxItems
EntryIds == 1..MaxEntries

-----------------------------------------------------------------------------
(* Spec: every request that touches items and shopping_list, one at a time, *)
(* on items of one name.  No image-search credentials; the grocery          *)
(* database finds an image for every query.                                 *)

Found == Env("empty", "url", "empty", "jpeg")
NotFound == Env("empty", "empty", "empty", "fail")

InitInv == Init /\ ~google_configured

InvUpdates == {[status |-> "needed"], [status |-> "have"], [price |-> 0]}

AddItemInv == AddItem([name |-> Milk], Found)
UpdateItemInv == \E i \in ItemIds, data \in InvUpdates : UpdateItem(i, data)
DeleteItemInv == \E i \in ItemIds : DeleteItem(i)
RemoveInv == \E e \in EntryIds : RemoveFromShoppingList(e)
RefreshImageInv == \E i \in ItemIds : RefreshImage(i, Found)
UploadItemImageInv == \E i \in ItemIds : UploadItemImage(i, ".png")
UploadReceiptInv ==
    UploadReceipt([kind |-> "array", items |-> <<[name |-> milk]>>], "", <<Found>>)

Next ==
    \/ AddItemInv
    \/ UpdateItemInv
    \/ DeleteItemInv
    \/ RemoveInv
    \/ RefreshImageInv
    \/ UploadItemImageInv
    \/ UploadReceiptInv

Spec == InitInv /\ [][Next]_vars

\* the last request was update_item on item i with this status, and it
\* returned normally
Updated(i, status) ==
    /\ last.op = "update_item"
    /\ last.result = "ok"
    /\ last.args[1] = i
    /\ Get(last.args[2], "status", "") = status

CountEvents(ih, event_type) ==
    Cardinality({k \in 1..Len(ih) : ih[k].event_type = event_type})

\* C1: the shopping list never holds two entries of one item id; right
\* after an update to needed the item has exactly one entry (also when it
\* had one before), and right after an update to have it has none.
C1_OneEntryPerItem ==
    /\ \A e1, e2 \in DOMAIN shopping_list :
          shopping_list[e1].item_id = shopping_list[e2].item_id => e1 = e2
    /\ \A i \in DOMAIN items :
          /\ Updated(i, "needed") => Cardinality(EntriesOf(shopping_list, i)) = 1
          /\ Updated(i, "have") => EntriesOf(shopping_list, i) = {}

\* an item was set to needed twice in a row and only one entry was ever made
C1_Witness ==
    /\ \E i \in DOMAIN items : Updated(i, "needed")
    /\ CountEvents(item_history, "needed") = 2
    /\ shopping_seq = 1
    /\ Cardinality(DOMAIN shopping_list) = 1

\* C2: an item has an entry exactly when its status is needed, every entry
\* references an item that exists, and the entry is gone (and the item is
\* have) right after a purchase and after a receipt that restocks it.
C2_EntryIffNeeded ==
    /\ \A i \in DOMAIN items :
          (EntriesOf(shopping_list, i) # {}) <=> (items[i].status = "needed")
    /\ \A e \in DOMAIN shopping_list : shopping_list[e].item_id \in DOMAIN items
    /\ last.op = "remove_from_shopping_list" => last.args[1] \notin DOMAIN shopping_list
    /\ (last.op = "upload_receipt" /\ last.result = "ok") =>
          \A k \in 1..Len(last.added) :
             /\ items[last.added[k].id].status = "have"
             /\ EntriesOf(shopping_list, last.added[k].id) = {}
    /\ last.op = "delete_item" =>
          /\ last.args[1] \notin DOMAIN items
          /\ EntriesOf(shopping_list, last.args[1]) = {}

\* a receipt restocked an item that was needed: its entry is gone
C2_Witness ==
    /\ last.op = "upload_receipt"
    /\ last.result = "ok"
    /\ last.added[1].action = "updated"
    /\ CountEvents(item_history, "needed") = 1
    /\ shopping_seq = 1
    /\ shopping_list = << >>
    /\ items[last.added[1].id].status = "have"

ItemScoped ==
    {"update_item", "delete_item", "refresh_image", "upload_item_image",
     "get_price_history"}

\* C21: a request for an item, made with an id that no row of items has,
\* is answered not found and changes no table.
C21_MissingItemNotFound ==
    [][(last'.op \in ItemScoped /\ last'.args[1] \notin DOMAIN items) =>
          /\ last'.result = "not_found"
          /\ UNCHANGED <<items, shopping_list, image_cache, item_history,
                         price_history>>]_vars

-----------------------------------------------------------------------------
(* SpecReceipt: receipts of up to MaxLines line items on an inventory      *)
(* filled by add_item ("Milk") and changed by update_item.  A line item    *)
(* names the item in another case ("milk"), names another item, or comes   *)
(* without a name.                                                         *)

RcpLines == {[name |-> milk], [name |-> Eggs], [price |-> 0]}

RECURSIVE SeqsUpTo(_, _)
\* the sequences over S of length 1..n
SeqsUpTo(S, n) ==
    IF n = 0 THEN {}
    ELSE {<<x>> : x \in S}
         \cup {Append(q, x) : q \in SeqsUpTo(S, n - 1), x \in S}

RcpReceipts == SeqsUpTo(RcpLines, MaxLines)

AddItemRcp == AddItem([name |-> Milk], Found)
UpdateItemRcp ==
    \E i \in ItemIds : UpdateItem(i, [status |-> "needed", quantity |-> 2])
UploadReceiptRcp ==
    \E lines \in RcpReceipts :
        UploadReceipt([kind |-> "array", items |-> lines], "",
                      [k \in 1..Len(lines) |-> Found])

NextReceipt ==
    \/ AddItemRcp
    \/ UpdateItemRcp
    \/ UploadReceiptRcp

SpecReceipt == InitInv /\ [][NextReceipt]_vars

\* the last request was a receipt that was ingested and reported
Ingested(l) == l.op = "upload_receipt" /\ l.result = "ok"

SameName(a, b) == Lower(a) = Lower(b)

\* the rows whose name is this one, ignoring case
Named(tbl, name) == {i \in DOMAIN tbl : SameName(tbl[i].name, name)}

Count(seq, Test(_)) == Cardinality({n \in 1..Len(seq) : Test(seq[n])})

Larger(a, b) == IF a >= b THEN a ELSE b

\* C3: when a receipt is ingested, an item that is the only one of its
\* name (ignoring case) and is named by k of the line items ends with its
\* quantity raised by k and status have, and the history log gains exactly
\* k restocked events of that name, after the events it held.
C3_MergeCorrectness ==
    [][Ingested(last') =>
        \A i \in DOMAIN items :
            LET lines == last'.args[1].items
                Hit(line) == SameName(line.name, items[i].name)
                fresh == SubSeq(item_history', Len(item_history) + 1,
                                Len(item_history'))
                Logged(ev) == /\ ev.event_type = "restocked"
                              /\ SameName(ev.item_name, items[i].name)
            IN  (Count(lines, Hit) > 0 /\ Named(items, items[i].name) = {i}) =>
                   /\ items'[i].quantity = items[i].quantity + Count(lines, Hit)
                   /\ items'[i].status = "have"
                   /\ Count(fresh, Logged) = Count(lines, Hit)
                   /\ SubSeq(item_history', 1, Len(item_history)) = item_history
    ]_vars

\* an item of quantity 1 was named twice, in another case, by one receipt
\* and now has 3
C3_Witness ==
    /\ Ingested(last)
    /\ Len(last.added) = 2
    /\ last.added[1].id = last.added[2].id
    /\ last.added[1].action = "updated"
    /\ last.added[2].action = "updated"
    /\ last.added[1].name # items[last.added[1].id].name
    /\ items[last.added[1].id].quantity = 3

\* C4: when a receipt is ingested, a line item is reported as updated, and
\* no row is inserted for it, exactly when its name (ignoring case) is the
\* name of a row that existed before or of an earlier line item of the
\* receipt; no name ends with more rows than it had, or than one.
C4_UpdatePathOnMatch ==
    [][Ingested(last') =>
        LET lines == last'.args[1].items
            added == last'.added
            Known(n) == \/ Named(items, lines[n].name) # {}
                        \/ \E m \in 1..(n - 1) : SameName(lines[m].name, lines[n].name)
            IsNew(a) == a.action = "added"
        IN  /\ Len(added) = Len(lines)
            /\ \A n \in 1..Len(lines) :
                  /\ Known(n) <=> added[n].action = "updated"
                  /\ Cardinality(Named(items', lines[n].name))
                        <= Larger(Cardinality(Named(items, lines[n].name)), 1)
            /\ Cardinality(DOMAIN items') =
                  Cardinality(DOMAIN items) + Count(added, IsNew)
    ]_vars

\* a receipt named a new item twice (one row, then the update of that row)
\* in an inventory that held a row of another name
C4_Witness ==
    /\ Ingested(last)
    /\ Len(last.added) = 2
    /\ last.added[1].action = "added"
    /\ last.added[2].action = "updated"
    /\ last.added[1].id = last.added[2].id
    /\ \E i \in DOMAIN items :
          items[i].name = Milk /\ i # last.added[1].id

InventoryTables == {"items", "shopping_list", "item_history", "price_history"}

IsCacheWrite(w) == w = "image_cache"
IsItemsWrite(w) == w = "items"

\* C10: in every receipt ingestion, every write to image_cache comes before
\* the first write to an inventory table, and when the ingestion is
\* reported every line item has been resolved.
C10_ImagesBeforeWrites ==
    last.op = "upload_receipt" =>
        /\ \A a, b \in 1..Len(last.writes) :
              (a < b /\ last.writes[a] \in InventoryTables)
                  => last.writes[b] # "image_cache"
        /\ Ingested(last) => Len(last.fetches) = Len(last.args[1].items)

\* a receipt of two new items: two cache writes, then the rows
C10_Witness ==
    /\ Ingested(last)
    /\ Count(last.writes, IsCacheWrite) = 2
    /\ Count(last.writes, IsItemsWrite) = 2
    /\ last.writes[1] = "image_cache"

\* C24: a receipt that was extracted and has a line item without a name is
\* reported as failed and leaves items, shopping_list, item_history and
\* price_history as they were, the line items before the nameless one
\* included, while the image cache holds a row for every line item that
\* was resolved.
C24_ReconcileAllOrNothing ==
    [][(/\ last'.op = "upload_receipt"
        /\ last'.args[1].kind = "array"
        /\ \E n \in 1..Len(last'.args[1].items) :
              "name" \notin DOMAIN last'.args[1].items[n])
       =>
          /\ last'.result = "error"
          /\ UNCHANGED <<items, shopping_list, item_history, price_history>>
          /\ Len(last'.fetches) = Len(last'.args[1].items)
          /\ \A n \in 1..Len(last'.fetches) :
                last'.fetches[n].qh \in DOMAIN image_cache'
    ]_vars

\* the receipt <<Eggs, a line item without a name>> on an inventory without
\* Eggs: the row of Eggs was written and is gone, its image is cached
C24_Witness ==
    /\ last.op = "upload_receipt"
    /\ last.result = "error"
    /\ last.args[1].items = <<[name |-> Eggs], [price |-> 0]>>
    /\ last.writes = <<"image_cache", "image_cache", "items", "item_history",
                       "rollback">>
    /\ Named(items, Eggs) = {}
    /\ Lower(Eggs) \in DOMAIN image_cache
    /\ image_cache[Lower(Eggs)].local_path # None

-----------------------------------------------------------------------------
(* SpecCascade: items added under every combination of provider outcomes,  *)
(* with and without the credentials of the keyed image search.             *)

CascadeItems == {[name |-> Milk], [name |-> milk, description |-> TwoPct]}

CascadeEnvs ==
    {Env(g, o, w, d) : g \in Outcomes, o \in Outcomes, w \in Outcomes,
                       d \in {"png", "fail"}}

AddItemCascade ==
    \E data \in CascadeItems, env \in CascadeEnvs : AddItem(data, env)

NextCascade == AddItemCascade

SpecCascade == Init /\ [][NextCascade]_vars

\* the providers the resolver may query, in the order of the code
Order(configured) ==
    IF configured THEN <<"google", "off", "wikipedia">>
    ELSE <<"off", "wikipedia">>

\* C6: on a cache miss the providers queried are the first ones of the
\* order keyed image search (only with credentials), grocery-product
\* database, encyclopedia: each one queried after all the ones before it
\* yielded no URL, and none queried after one that yielded a URL.
C6_ProviderOrder ==
    \A n \in 1..Len(last.fetches) :
        LET f == last.fetches[n]
            order == Order(google_configured)
        IN  ~f.hit =>
              /\ Len(f.calls) \in 1..Len(order)
              /\ \A k \in 1..Len(f.calls) : f.calls[k].provider = order[k]
              /\ \A k \in 1..(Len(f.calls) - 1) : ~Truthy(f.calls[k].url)
              /\ Len(f.calls) < Len(order) => Truthy(f.calls[Len(f.calls)].url)

\* the keyed search and the product database gave nothing and the
\* encyclopedia gave the URL
C6_Witness ==
    /\ last.op = "add_item"
    /\ last.result = "ok"
    /\ ~last.fetches[1].hit
    /\ Len(last.fetches[1].calls) = 3
    /\ last.fetches[1].image_url = Url("wikipedia")

NoUrl(call) == ~Truthy(call.url)

\* C7: whatever the providers answer, the resolution returns to its caller
\* without an error, and when no provider yielded a URL it returns
\* (null, null).
C7_FailuresSwallowed ==
    \A n \in 1..Len(last.fetches) :
        LET f == last.fetches[n]
        IN  /\ ~f.raised
            /\ (~f.hit /\ Count(f.calls, NoUrl) = Len(f.calls)) =>
                  (f.local_path = None /\ f.image_url = None)

-----------------------------------------------------------------------------
(* SpecImg: items of one fingerprint added, refreshed and given uploaded   *)
(* images, under provider answers that find an image, find a URL whose     *)
(* download fails, find nothing, and hold a URL field that is not text.    *)

ImgItems == {[name |-> Milk], [name |-> milk]}

ImgEnvs ==
    {Env("empty", "url", "empty", "png"),
     Env("url", "empty", "empty", "fail"),
     Env("timeout", "non2xx", "malformed", "png"),
     Env("empty", "empty", "badtype", "png")}

AddItemImg == \E data \in ImgItems, env \in ImgEnvs : AddItem(data, env)
RefreshImageImg == \E i \in ItemIds, env \in ImgEnvs : RefreshImage(i, env)
UploadItemImageImg == \E i \in ItemIds : UploadItemImage(i, ".gif")

NextImg ==
    \/ AddItemImg
    \/ RefreshImageImg
    \/ UploadItemImageImg

SpecImg == Init /\ [][NextImg]_vars

\* C5: a resolution that finds a cache entry for its fingerprint (left by
\* an earlier resolution, with no forced refresh since) issues no provider
\* request, also when the entry holds a null local path.
C5_NoSecondQuery ==
    \A n \in 1..Len(last.fetches) :
        last.fetches[n].cached # NoRow => last.fetches[n].calls = << >>

\* C8: a forced refresh of an existing item resolves with the cache entry
\* of the item's fingerprint deleted, so that the providers are queried
\* whatever was cached, and afterwards the cache entry of that fingerprint
\* holds what this resolution found.
C8_RefreshReplaces ==
    (last.op = "refresh_image" /\ last.result # "not_found") =>
        LET f == last.fetches[1]
        IN  /\ f.cached = NoRow
            /\ ~f.hit
            /\ f.calls # << >>
            /\ f.qh \in DOMAIN image_cache
            /\ image_cache[f.qh].local_path = f.local_path
            /\ image_cache[f.qh].source_url = f.image_url

FingerprintOf(item) == QueryHash(Query(item.name, item.description))

\* a cache entry written by a manual upload
IsUpload(row) == row.source_url = None /\ row.local_path # None

\* the request is a forced refresh or an upload for an item of fingerprint qh
Replaces(l, tbl, qh) ==
    /\ l.op \in {"refresh_image", "upload_item_image"}
    /\ l.args[1] \in DOMAIN tbl
    /\ FingerprintOf(tbl[l.args[1]]) = qh

\* C9: a manual upload for an item leaves, for the item's fingerprint, the
\* cache entry (uploaded path, source_url null) whatever entry there was;
\* until a forced refresh or another upload for that fingerprint the entry
\* stays, and every resolution of the fingerprint returns the uploaded
\* path and queries no provider.
C9_ManualOverride ==
    [][ /\ (last'.op = "upload_item_image" /\ last'.result = "ok") =>
              LET id == last'.args[1]
                  qh == FingerprintOf(items[id])
              IN  /\ qh \in DOMAIN image_cache'
                  /\ image_cache'[qh].local_path =
                        CustomPath(id, UploadExt(last'.args[2]))
                  /\ image_cache'[qh].source_url = None
                  /\ image_cache'[qh].local_path \in files'
        /\ \A qh \in DOMAIN image_cache :
              (IsUpload(image_cache[qh]) /\ ~Replaces(last', items, qh)) =>
                  /\ qh \in DOMAIN image_cache'
                  /\ image_cache'[qh] = image_cache[qh]
                  /\ \A n \in 1..Len(last'.fetches) :
                        last'.fetches[n].qh = qh =>
                            /\ last'.fetches[n].calls = << >>
                            /\ last'.fetches[n].local_path =
                                  image_cache[qh].local_path
    ]_vars

\* an item was added after an upload had replaced the entry of a resolved
\* image: it got the uploaded file of item 1, and no provider was queried
C9_Witness ==
    /\ last.op = "add_item"
    /\ last.result = "ok"
    /\ last.fetches[1].hit
    /\ last.fetches[1].calls = << >>
    /\ last.fetches[1].cached.source_url = None
    /\ last.fetches[1].local_path = CustomPath(1, ".jpg")
    /\ HashPath(last.fetches[1].qh, ".png") \in files

-----------------------------------------------------------------------------
(* SpecStore: receipts with and without a store hint, whose line items     *)
(* carry a price (0 or 2), a store (none, empty, or another one than the   *)
(* hint) and a category (none, of the fixed set, or outside it), and the   *)
(* values that the oracle can return in place of an array.  No provider    *)
(* finds an image.                                                         *)

StoreHints == {"", "Kroger"}

StoreLines ==
    {[name |-> milk, price |-> 2],
     [name |-> milk, price |-> 2, store |-> ""],
     [name |-> milk, price |-> 2, store |-> "Aldi", category |-> "Fridge"],
     [name |-> milk, price |-> 0, store |-> "Aldi", category |-> "Dairy"]}

StoreOracles ==
    {[kind |-> "array", items |-> l] : l \in SeqsUpTo(StoreLines, MaxLines)}
    \cup {[kind |-> "error"], [kind |-> "malformed"], [kind |-> "number"]}
    \cup {[kind |-> k, elems |-> e] :
             k \in {"object", "string"}, e \in {<< >>, <<"n", "o">>}}

AddItemStore == AddItem([name |-> Milk], NotFound)

UploadReceiptStore ==
    \E oracle \in StoreOracles, store \in StoreHints :
        UploadReceipt(oracle, store, [k \in 1..Len(Lines(oracle)) |-> NotFound])

NextStore ==
    \/ AddItemStore
    \/ UploadReceiptStore

SpecStore == InitInv /\ [][NextStore]_vars

\* the rows a step appended to a log
Appended(log, log2) == SubSeq(log2, Len(log) + 1, Len(log2))

\* a line item that has a price above 0 and whose store field is not the
\* empty text
Priced(line) ==
    /\ Get(line, "price", 0) > 0
    /\ ~("store" \in DOMAIN line /\ line["store"] = "")

\* C11: a receipt appends no more price_history rows than it has line
\* items with a price above 0 and a store that is not empty, with or
\* without a store hint: a line item whose price is 0 or whose store is
\* empty appends none.
C11_PriceGating ==
    [][Ingested(last') =>
          Len(Appended(price_history, price_history'))
              <= Count(Lines(last'.args[1]), Priced)
    ]_vars

\* C14: when analyze_receipt_image fails or returns a value that is not an
\* array, the receipt is reported as failed and the five tables are left
\* as they were.
C14_ExtractionAtomic ==
    [][(last'.op = "upload_receipt" /\ last'.args[1].kind # "array") =>
          /\ last'.result = "error"
          /\ UNCHANGED <<items, shopping_list, item_history, price_history,
                         image_cache>>
    ]_vars

\* C15: a receipt ingested with a store hint inserts only items, and
\* appends only price observations, whose store is the hint.
C15_HintForced ==
    [][(Ingested(last') /\ last'.args[2] # "") =>
          /\ \A i \in DOMAIN items' \ DOMAIN items :
                items'[i].store = last'.args[2]
          /\ \A k \in 1..Len(Appended(price_history, price_history')) :
                Appended(price_history, price_history')[k].store = last'.args[2]
    ]_vars

\* the categories of the prompt
Categories == {"Fridge", "Freezer", "Pantry", "Bathroom", "Laundry",
               "Cleaning", "Snacks", "Beverages", "Other"}

HasName(line) == "name" \in DOMAIN line

\* C16: a receipt whose line items all have a name is ingested whatever
\* their categories are, and every item it inserts has a category of the
\* fixed set.
C16_CategoryInEnum ==
    [][(last'.op = "upload_receipt" /\ last'.args[1].kind = "array"
            /\ Count(Lines(last'.args[1]), HasName) = Len(Lines(last'.args[1]))) =>
          /\ Ingested(last')
          /\ \A i \in DOMAIN items' \ DOMAIN items :
                items'[i].category \in Categories
    ]_vars

\* an inventory that holds the item "Milk", before a line item is handled
OneItem ==
    [items |-> <<NewItem([name |-> Milk], [image_url |-> None, local_path |-> None])>>,
     seq |-> 1, sl |-> << >>, ih |-> << >>, ph |-> << >>, added |-> << >>,
     writes |-> << >>, failed |-> FALSE]

\* C23: for every line item of an ingested receipt and its store hint, the
\* insert path appends to price_history the row that the update path
\* appends for the same line item and hint, or none when that one appends
\* none.
C23_SamePriceRuleOnBothPaths ==
    Ingested(last) =>
        \A n \in 1..Len(Lines(last.args[1])) :
            LET line == Lines(last.args[1])[n]
                pair == [image_url |-> None, local_path |-> None]
            IN  HasName(line) =>
                    Insert(OneItem, line, pair, last.args[2]).ph
                        = Restock(OneItem, 1, line, pair, last.args[2]).ph

-----------------------------------------------------------------------------
(* SpecLog: the seven requests that write, on items that have a store and  *)
(* a price, so that both logs fill; a receipt either is ingested or fails  *)
(* at its second line item, after the first one was written.               *)

LogUpdates == {[status |-> "needed"], [status |-> "have"], [price |-> 2]}

LogReceipts ==
    {<<[name |-> Milk, price |-> 2, store |-> "Aldi"]>>,
     <<[name |-> Milk, price |-> 2, store |-> "Aldi"], [price |-> 2]>>}

AddItemLog == AddItem([name |-> Milk, store |-> "Aldi", price |-> 2], NotFound)
UpdateItemLog == \E i \in ItemIds, data \in LogUpdates : UpdateItem(i, data)
DeleteItemLog == \E i \in ItemIds : DeleteItem(i)
RemoveLog == \E e \in EntryIds : RemoveFromShoppingList(e)
RefreshImageLog == \E i \in ItemIds : RefreshImage(i, NotFound)
UploadItemImageLog == \E i \in ItemIds : UploadItemImage(i, ".png")
UploadReceiptLog ==
    \E lines \in LogReceipts :
        UploadReceipt([kind |-> "array", items |-> lines], "",
                      [k \in 1..Len(lines) |-> NotFound])

NextLog ==
    \/ AddItemLog
    \/ UpdateItemLog
    \/ DeleteItemLog
    \/ RemoveLog
    \/ RefreshImageLog
    \/ UploadItemImageLog
    \/ UploadReceiptLog

SpecLog == InitInv /\ [][NextLog]_vars

IsPrefix(log, log2) ==
    Len(log) <= Len(log2) /\ SubSeq(log2, 1, Len(log)) = log

\* C12: every request leaves the rows that item_history and price_history
\* held where they were and as they were: each log after a step extends
\* the log before it.
C12_LogsAppendOnly ==
    [][IsPrefix(item_history, item_history')
       /\ IsPrefix(price_history, price_history')]_vars

\* the last item was deleted and both logs still hold its rows
C12_Witness ==
    /\ last.op = "delete_item"
    /\ DOMAIN items = {}
    /\ Len(item_history) >= 2
    /\ Len(price_history) >= 1

-----------------------------------------------------------------------------
(* SpecKeep: receipts that name an item whose image was found and saved,   *)
(* found but not downloaded, not found, or uploaded by hand; the receipt's *)
(* line item has the item's description or another one, and its image is   *)
(* found at the encyclopedia.                                              *)

\* a URL is found and its download fails
UrlOnly == Env("empty", "url", "empty", "fail")

\* the encyclopedia has the image
AtWikipedia == Env("empty", "empty", "url", "png")

KeepLines == {[name |-> milk], [name |-> milk, description |-> TwoPct]}

AddItemKeep ==
    \E env \in {Found, UrlOnly, NotFound} : AddItem([name |-> Milk], env)
UploadItemImageKeep == \E i \in ItemIds : UploadItemImage(i, ".png")
UploadReceiptKeep ==
    \E line \in KeepLines :
        UploadReceipt([kind |-> "array", items |-> <<line>>], "",
                      <<AtWikipedia>>)

NextKeep ==
    \/ AddItemKeep
    \/ UploadItemImageKeep
    \/ UploadReceiptKeep

SpecKeep == InitInv /\ [][NextKeep]_vars

\* the item has a remote URL or a local path
HasImage(row) == Truthy(row.image_url) \/ Truthy(row.image_local)

\* C13: a receipt that is ingested leaves both image fields of every item
\* that had an image (a remote URL or a local path) as they were.
C13_ImageKept ==
    [][Ingested(last') =>
          \A i \in DOMAIN items :
              HasImage(items[i]) =>
                  /\ items'[i].image_url = items[i].image_url
                  /\ items'[i].image_local = items[i].image_local
    ]_vars

-----------------------------------------------------------------------------
(* SpecSuggest: the restock suggestions read from a history log of up to   *)
(* MaxEvents events of two names (that differ in case), restocked or       *)
(* needed, on days 0, 7, 14 and 21 in the order of the log, seen on day 21 *)
(* or 28, with an inventory that is empty or holds the item "Milk".        *)

SuggestDays == {0, 7, 14, 21}
SuggestNows == {21, 28}

SuggestEvents ==
    [item_name : {Milk, milk}, event_type : {"restocked", "needed"},
     event_date : SuggestDays]

\* a row is appended with the date of its request
InOrder(log, row) == log = << >> \/ log[Len(log)].event_date <= row.event_date

RECURSIVE HistoryLogs(_)
\* the logs of up to n rows
HistoryLogs(n) ==
    IF n = 0 THEN {<< >>}
    ELSE HistoryLogs(n - 1)
         \cup {Append(p[1], p[2]) :
                 p \in {q \in HistoryLogs(n - 1) \X SuggestEvents :
                           Len(q[1]) = n - 1 /\ InOrder(q[1], q[2])}}

InitSuggest ==
    /\ items \in {<< >>,
                  <<NewItem([name |-> Milk], [image_url |-> None, local_path |-> None])>>}
    /\ items_seq = Len(items)
    /\ shopping_list = << >>
    /\ shopping_seq = 0
    /\ image_cache = << >>
    /\ files = {}
    /\ item_history \in HistoryLogs(MaxEvents)
    /\ price_history = << >>
    /\ google_configured = FALSE
    /\ now \in SuggestNows
    /\ conns = [c \in Conns |-> IdleConn]
    /\ writer = 0
    /\ last = [op |-> "init", result |-> "ok", args |-> << >>,
               fetches |-> << >>, writes |-> << >>]

NextSuggest == GetSuggestions

SpecSuggest == InitSuggest /\ [][NextSuggest]_vars

\* the restocked events of a name, and the days of the first and the last
RestocksOf(name) ==
    {k \in 1..Len(item_history) :
        /\ item_history[k].event_type = "restocked"
        /\ item_history[k].item_name = name}

FirstDay(E) ==
    CHOOSE d \in {item_history[k].event_date : k \in E} :
        \A k \in E : d <= item_history[k].event_date

LastDay(E) ==
    CHOOSE d \in {item_history[k].event_date : k \in E} :
        \A k \in E : d >= item_history[k].event_date

\* x is an integer nearest to num / den
Nearest(x, num, den) ==
    /\ 2 * (x * den - num) <= den
    /\ 2 * (num - x * den) <= den

\* C17: every suggestion is for a name with n >= 2 restocked events; the
\* gaps between consecutive events in ascending order add up to the days
\* from the first event to the last, so avg_cycle is that number over n - 1;
\* days_since is now minus the last event, days_until_needed is
\* avg_cycle - days_since rounded to a nearest integer, and confidence is
\* min(n / 5, 1) (here in hundredths).
C17_CyclePrediction ==
    last.op = "get_suggestions" =>
        \A k \in 1..Len(last.suggestions) :
            LET s == last.suggestions[k]
                E == RestocksOf(s.item_name)
                n == Cardinality(E)
                total == LastDay(E) - FirstDay(E)
            IN  /\ n >= 2
                /\ s.restock_count = n
                /\ s.days_since_restock = now - LastDay(E)
                /\ Nearest(s.avg_cycle_days, total, n - 1)
                /\ Nearest(s.days_until_needed,
                           total - s.days_since_restock * (n - 1), n - 1)
                /\ s.confidence * 5 = 100 * (IF n < 5 THEN n ELSE 5)

\* restocks of Milk on days 0, 7, 14 and 21, seen on day 28
C17_Witness ==
    /\ last.op = "get_suggestions"
    /\ now = 28
    /\ Len(item_history) = 4
    /\ \A k \in 1..4 :
          item_history[k] = [item_name |-> Milk, event_type |-> "restocked",
                             event_date |-> 7 * (k - 1)]
    /\ last.suggestions =
          << [item_name |-> Milk, item_id |-> 1, avg_cycle_days |-> 7,
              days_since_restock |-> 7, days_until_needed |-> 0,
              confidence |-> 80, restock_count |-> 4] >>

LoggedNames == {item_history[k].item_name : k \in 1..Len(item_history)}

\* C18: the suggestions hold one entry for a name exactly when the log
\* holds n >= 2 restocked events of the name whose average gap, the days
\* from the first to the last over n - 1, is at least 1; needed events do
\* not count; the entries are in ascending order of days_until_needed.
C18_SuggestedNames ==
    last.op = "get_suggestions" =>
        LET s == last.suggestions
        IN  /\ \A k \in 1..Len(s) : s[k].item_name \in LoggedNames
            /\ \A name \in LoggedNames :
                  LET E == RestocksOf(name)
                      n == Cardinality(E)
                  IN  (\E k \in 1..Len(s) : s[k].item_name = name)
                        <=> (n >= 2 /\ LastDay(E) - FirstDay(E) >= n - 1)
            /\ \A a, b \in 1..Len(s) :
                  a < b => /\ s[a].item_name # s[b].item_name
                           /\ s[a].days_until_needed <= s[b].days_until_needed

\* one name has two restocked events a week apart and is suggested; the
\* other has one restocked and one needed event and is not
C18_Witness ==
    /\ last.op = "get_suggestions"
    /\ Len(last.suggestions) = 1
    /\ last.suggestions[1].item_name = Milk
    /\ Cardinality(RestocksOf(milk)) = 1
    /\ \E k \in 1..Len(item_history) :
          /\ item_history[k].item_name = milk
          /\ item_history[k].event_type = "needed"

\* C25: no two entries of the suggestions carry the same item id, None
\* apart: the restocked events that one item has under names differing in
\* case make one entry.
C25_OneSuggestionPerItem ==
    last.op = "get_suggestions" =>
        \A a, b \in 1..Len(last.suggestions) :
            (a # b /\ last.suggestions[a].item_id # 0)
                => last.suggestions[a].item_id # last.suggestions[b].item_id

-----------------------------------------------------------------------------
(* SpecPrice: the price comparison of an item named Milk, read from a log  *)
(* of up to MaxObs observations, of the item (logged as milk) and of       *)
(* another one, at two stores.  Prices are in cents.  Each row is logged   *)
(* at its own instant, later than the rows before it.                      *)

PriceStores == {"StoreA", "StoreB"}
PriceCents == {299, 399, 450}

PriceRows == [item_name : {milk, Eggs}, store : PriceStores, price : PriceCents]

\* the row, logged at instant t
At(row, t) ==
    [item_name |-> row.item_name, store |-> row.store, price |-> row.price,
     date_recorded |-> t]

RECURSIVE PriceLogs(_)
\* the logs of up to n rows
PriceLogs(n) ==
    IF n = 0 THEN {<< >>}
    ELSE PriceLogs(n - 1)
         \cup {Append(p[1], At(p[2], n)) :
                 p \in {q \in PriceLogs(n - 1) \X PriceRows : Len(q[1]) = n - 1}}

InitPrice ==
    /\ items = <<NewItem([name |-> Milk], [image_url |-> None, local_path |-> None])>>
    /\ items_seq = 1
    /\ shopping_list = << >>
    /\ shopping_seq = 0
    /\ image_cache = << >>
    /\ files = {}
    /\ item_history = << >>
    /\ price_history \in PriceLogs(MaxObs)
    /\ google_configured = FALSE
    /\ now = MaxObs
    /\ conns = [c \in Conns |-> IdleConn]
    /\ writer = 0
    /\ last = [op |-> "init", result |-> "ok", args |-> << >>,
               fetches |-> << >>, writes |-> << >>]

GetPriceHistoryPrice == \E i \in ItemIds : GetPriceHistory(i)

NextPrice == GetPriceHistoryPrice

SpecPrice == InitPrice /\ [][NextPrice]_vars

\* the observations of the item the last request asked for
Observed ==
    {k \in 1..Len(price_history) :
        Lower(price_history[k].item_name) = Lower(items[last.args[1]].name)}

\* C19: the price comparison of an item holds, for every store with an
\* observation of the item, exactly one entry, which is the store's
\* observation of the greatest timestamp, and no other entry; the entries
\* are in ascending order of price, and the first one, and no other, is
\* marked cheapest.
C19_PriceComparison ==
    (last.op = "get_price_history" /\ last.args[1] \in DOMAIN items) =>
        LET out == last.prices
            Newest(k) == \A j \in Observed :
                            price_history[j].store = price_history[k].store
                                => price_history[j].date_recorded
                                       <= price_history[k].date_recorded
        IN  /\ \A k \in Observed :
                  Cardinality({n \in 1..Len(out) :
                                  out[n].store = price_history[k].store}) = 1
            /\ \A n \in 1..Len(out) :
                  \E k \in Observed :
                      /\ Newest(k)
                      /\ out[n].store = price_history[k].store
                      /\ out[n].price = price_history[k].price
                      /\ out[n].date_recorded = price_history[k].date_recorded
            /\ \A a, b \in 1..Len(out) : a < b => out[a].price <= out[b].price
            /\ \A n \in 1..Len(out) :
                  ("cheapest" \in DOMAIN out[n]) <=> n = 1
            /\ out # << >> => out[1].cheapest

\* StoreA 3.99 at t1, StoreB 2.99 at t2, StoreA 4.50 at t3
C19_Witness ==
    /\ last.op = "get_price_history"
    /\ price_history =
          << [item_name |-> milk, store |-> "StoreA", price |-> 399,
              date_recorded |-> 1],
             [item_name |-> milk, store |-> "StoreB", price |-> 299,
              date_recorded |-> 2],
             [item_name |-> milk, store |-> "StoreA", price |-> 450,
              date_recorded |-> 3] >>
    /\ last.prices =
          << [store |-> "StoreB", price |-> 299, date_recorded |-> 2,
              cheapest |-> TRUE],
             [store |-> "StoreA", price |-> 450, date_recorded |-> 3] >>

-----------------------------------------------------------------------------
(* SpecWiki: fetch_from_wikipedia called with a name and an answer of the  *)
(* search request that lists up to MaxResults results.                     *)

AppleSauce == <<"a", "p", "p", "l", "e", " ", "s", "a", "u", "c", "e">>
AppleSauceCaps == <<"A", "p", "p", "l", "e", " ", "S", "a", "u", "c", "e">>
OfIt == <<"o", "f", " ", "i", "t">>
Apple == <<"A", "p", "p", "l", "e">>
Sauce == <<"S", "a", "u", "c", "e">>
Applesauce ==
    <<"A", "p", "p", "l", "e", "s", "a", "u", "c", "e", " ",
      "(", "c", "o", "n", "d", "i", "m", "e", "n", "t", ")">>

WikiNames == {AppleSauce, AppleSauceCaps, OfIt}
WikiTitles == {Apple, Sauce, Applesauce}
WikiResults == [title : WikiTitles, page : PageAnswers]

WikiSearches ==
    {[status |-> "non2xx", results |-> << >>],
     [status |-> "ok", results |-> << >>]}
    \cup {[status |-> "ok", results |-> r] : r \in SeqsUpTo(WikiResults, MaxResults)}

\* the call that is about to be made
InitWiki ==
    /\ items = << >>
    /\ items_seq = 0
    /\ shopping_list = << >>
    /\ shopping_seq = 0
    /\ image_cache = << >>
    /\ files = {}
    /\ item_history = << >>
    /\ price_history = << >>
    /\ google_configured = FALSE
    /\ now = 0
    /\ conns = [c \in Conns |-> IdleConn]
    /\ writer = 0
    /\ \E item_name \in WikiNames, search \in WikiSearches :
          last = [op |-> "call", result |-> "ok", args |-> <<item_name, search>>,
                  fetches |-> << >>, writes |-> << >>]

FetchFromWikipediaWiki ==
    /\ last.op = "call"
    /\ FetchFromWikipedia(last.args[1], last.args[2])

NextWiki == FetchFromWikipediaWiki

SpecWiki == InitWiki /\ [][NextWiki]_vars

\* the letters a..b of the text are a word of it: a maximal run without a blank
IsWord(text, a, b) ==
    /\ a <= b
    /\ \A i \in a..b : text[i] # " "
    /\ a = 1 \/ text[a - 1] = " "
    /\ b = Len(text) \/ text[b + 1] = " "

\* the letters a..b of the text occur in the title, ignoring case
Occurs(text, a, b, title) ==
    \E at \in 1..Len(title) :
        \A i \in a..b :
            /\ at + (i - a) <= Len(title)
            /\ LowerChar(title[at + (i - a)]) = LowerChar(text[i])

\* every word of the text that is longer than two letters occurs in the title
AllWordsOccur(text, title) ==
    \A a, b \in 1..Len(text) :
        (IsWord(text, a, b) /\ b - a + 1 > 2) => Occurs(text, a, b, title)

\* C20: the encyclopedia provider asks for the page of a result, and returns
\* its thumbnail, only if every word of the name that is longer than two
\* characters occurs, ignoring case, in the result's title; for "apple
\* sauce" and the results "Apple" and "Applesauce (condiment)", both with a
\* thumbnail, it passes over the first and returns the second one's.
C20_WordContainment ==
    last.op = "fetch_from_wikipedia" =>
        LET item_name == last.args[1]
            results == last.args[2].results
        IN  /\ \A n \in 1..Len(last.pages) :
                  AllWordsOccur(item_name, last.pages[n])
            /\ last.result # None =>
                  \E n \in 1..Len(results) :
                      /\ last.result = Thumb(results[n].title)
                      /\ AllWordsOccur(item_name, results[n].title)
            /\ (item_name = AppleSauce
                  /\ results = <<[title |-> Apple, page |-> "thumb"],
                                 [title |-> Applesauce, page |-> "thumb"]>>)
                  => (last.pages = <<Applesauce>>
                        /\ last.result = Thumb(Applesauce))

C20_Witness ==
    /\ last.op = "fetch_from_wikipedia"
    /\ last.args[1] = AppleSauce
    /\ last.args[2].results = <<[title |-> Apple, page |-> "thumb"],
                                [title |-> Applesauce, page |-> "thumb"]>>
    /\ last.pages = <<Applesauce>>
    /\ last.result = Thumb(Applesauce)

-----------------------------------------------------------------------------
(* SpecConc: up to MaxConns update_item requests for the item "Milk" at a  *)
(* time, their statements and commits interleaved in every order.          *)

ConcUpdates == {[status |-> "needed"], [status |-> "have"], [price |-> 0]}

InitConc ==
    /\ items = <<NewItem([name |-> Milk], [image_url |-> None, local_path |-> None])>>
    /\ items_seq = 1
    /\ shopping_list = << >>
    /\ shopping_seq = 0
    /\ image_cache = << >>
    /\ files = {}
    /\ item_history = << >>
    /\ price_history = << >>
    /\ google_configured = FALSE
    /\ now = 0
    /\ conns = [c \in Conns |-> IdleConn]
    /\ writer = 0
    /\ last = [op |-> "init", result |-> "ok", args |-> << >>,
               fetches |-> << >>, writes |-> << >>]

NextConc ==
    \/ \E c \in Conns, i \in DOMAIN items, data \in ConcUpdates :
          BeginUpdate(c, i, data)
    \/ \E c \in Conns : UpdateRow(c)
    \/ \E c \in Conns : ReadItem(c)
    \/ \E c \in Conns : LogPrice(c)
    \/ \E c \in Conns : LogNeeded(c)
    \/ \E c \in Conns : CheckExisting(c)
    \/ \E c \in Conns : WriteEntry(c)
    \/ \E c \in Conns : DeleteEntries(c)
    \/ \E c \in Conns : Busy(c)

SpecConc == InitConc /\ [][NextConc]_vars

\* C22: whatever the order in which the statements and commits of the
\* requests that set an item needed run, no item id has two entries on the
\* shopping list, and what a request found when it looked for the item's
\* entry is still so when it writes: between its look and its write no
\* other request has changed the shopping list.
C22_NoDuplicateUnderInterleaving ==
    /\ \A i \in ItemIds : Cardinality(EntriesOf(shopping_list, i)) <= 1
    /\ \A c \in Conns :
          conns[c].pc = "write" =>
              (conns[c].existing <=> ~NoEntryYet(shopping_list, conns[c].item_id))

\* one request has looked and found no entry; the other one, for the same
\* item, is at the statement that waits for the first one's commit
C22_Witness ==
    /\ conns[1].pc = "write"
    /\ ~conns[1].existing
    /\ conns[2].pc = "log_needed"
    /\ conns[2].item_id = conns[1].item_id
    /\ conns[1].data = [status |-> "needed"]
    /\ conns[2].data = [status |-> "needed"]

=============================================================================
